---- MODULE Spec2Model ----
(***************************************************************************)
(* Model of pkg/quantum (quantum.go) and of the isPrime helper of the     *)
(* example program.                                                        *)
(*                                                                         *)
(* A Go value stored in a superposition is a record [k, n, d]: k is its    *)
(* reflect kind ("int", "float64", "string"), and n/d is its numeric value *)
(* as a reduced fraction (d > 0); for a string, n identifies the text.     *)
(* float64 arithmetic is modelled exactly on the small dyadic and rational *)
(* values the bounds reach; NaN, infinities and rounding are out of reach  *)
(* of the inputs enumerated here, and -0 is identified with 0 (Go's ==     *)
(* does the same).                                                         *)
(***************************************************************************)
EXTENDS Integers, Sequences, FiniteSets

VARIABLES a, b, r, op, steps, everConj, wasConj, n, i, divisors, pc, result

vars == <<a, b, r, op, steps, everConj, wasConj, n, i, divisors, pc, result>>

algVars == <<a, b, r, op, steps, everConj, wasConj>>

primeVars == <<n, i, divisors, pc, result>>

-----------------------------------------------------------------------------
(* Bounds of the model. *)

\* largest integer literal a caller puts in an operand
MaxVal == 1

\* longest literal value list handed to Any/All
MaxLen == 2

\* number of times a result is fed back in as an operand
MaxChain == 2

\* largest argument of isPrime
MaxN == 40

-----------------------------------------------------------------------------
(* Values. *)

Disjunctive == "Disjunctive"

Conjunctive == "Conjunctive"

IntVal(x) == [k |-> "int", n |-> x, d |-> 1]

TextVal(x) == [k |-> "string", n |-> x, d |-> 1]

Abs(x) == IF x < 0 THEN -x ELSE x

RECURSIVE GCD(_, _)
GCD(x, y) == IF y = 0 THEN x ELSE GCD(y, x % y)

\* the float64 with value x/y (y # 0), as a reduced fraction
Float(x, y) ==
  LET s == IF y < 0 THEN -1 ELSE 1
      g == GCD(Abs(x), Abs(y))
  IN  [k |-> "float64", n |-> (s * x) \div g, d |-> (s * y) \div g]

\* truncation of p/q towards zero (q # 0)
Trunc(p, q) ==
  LET m == Abs(p) \div Abs(q)
  IN  IF (p < 0) # (q < 0) THEN -m ELSE m

\* math.Mod(x, y) for y # 0: x - y * trunc(x / y); the sign follows x
Fmod(x, y) ==
  LET q == Trunc(x.n * y.d, x.d * y.n)
  IN  Float(x.n * y.d - q * y.n * x.d, x.d * y.d)

getNumericValue(val) ==
  IF val.k \in {"int", "float64"}
    THEN [val |-> Float(val.n, val.d), kind |-> val.k]
    ELSE [val |-> Float(0, 1), kind |-> "Invalid"]

Nil == [k |-> "nil", n |-> 0, d |-> 1]

performArithmetic(x, y, o) ==
  LET av == getNumericValue(x)
      bv == getNumericValue(y)
      aVal == av.val
      bVal == bv.val
  IN  IF av.kind = "Invalid" \/ bv.kind = "Invalid"
        THEN [res |-> Nil, err |-> TRUE]
        ELSE CASE o = "+" -> [res |-> Float(aVal.n * bVal.d + bVal.n * aVal.d, aVal.d * bVal.d),
                              err |-> FALSE]
               [] o = "-" -> [res |-> Float(aVal.n * bVal.d - bVal.n * aVal.d, aVal.d * bVal.d),
                              err |-> FALSE]
               [] o = "*" -> [res |-> Float(aVal.n * bVal.n, aVal.d * bVal.d), err |-> FALSE]
               [] o = "/" -> IF bVal.n = 0
                               THEN [res |-> Nil, err |-> TRUE]
                               ELSE [res |-> Float(aVal.n * bVal.d, aVal.d * bVal.n),
                                     err |-> FALSE]
               [] o = "%" -> IF bVal.n = 0
                               THEN [res |-> Nil, err |-> TRUE]
                               ELSE [res |-> Fmod(aVal, bVal), err |-> FALSE]
               [] OTHER -> [res |-> Nil, err |-> TRUE]

performComparison(x, y, o) ==
  LET av == getNumericValue(x)
      bv == getNumericValue(y)
      aVal == av.val
      bVal == bv.val
  IN  IF av.kind = "Invalid" \/ bv.kind = "Invalid"
        THEN [res |-> FALSE, err |-> TRUE]
        ELSE CASE o = "<" -> [res |-> aVal.n * bVal.d < bVal.n * aVal.d, err |-> FALSE]
               [] o = ">" -> [res |-> aVal.n * bVal.d > bVal.n * aVal.d, err |-> FALSE]
               [] o = "=" -> [res |-> aVal.n * bVal.d = bVal.n * aVal.d, err |-> FALSE]
               [] OTHER -> [res |-> FALSE, err |-> TRUE]

addValues(x, y) == performArithmetic(x, y, "+")

subValues(x, y) == performArithmetic(x, y, "-")

mulValues(x, y) == performArithmetic(x, y, "*")

divValues(x, y) == performArithmetic(x, y, "/")

modValues(x, y) == performArithmetic(x, y, "%")

lessThanValues(x, y) == performComparison(x, y, "<")

greaterThanValues(x, y) == performComparison(x, y, ">")

equalToValues(x, y) == performComparison(x, y, "=")

\* the call op(av, bv) of a function value passed to combineValues
callOp(f, x, y) ==
  CASE f = "addValues" -> addValues(x, y)
    [] f = "subValues" -> subValues(x, y)
    [] f = "mulValues" -> mulValues(x, y)
    [] f = "divValues" -> divValues(x, y)
    [] f = "modValues" -> modValues(x, y)

\* the call comp(av, bv) of a function value passed to compareValues
callComp(f, x, y) ==
  CASE f = "lessThanValues" -> lessThanValues(x, y)
    [] f = "greaterThanValues" -> greaterThanValues(x, y)
    [] f = "equalToValues" -> equalToValues(x, y)

-----------------------------------------------------------------------------
(* Superpositions and operands. *)

Superposition(vs, t) == [values |-> vs, typ |-> t]

Any(vs) == Superposition(vs, Disjunctive)

All(vs) == Superposition(vs, Conjunctive)

\* the type assertion val.(*Superposition)
IsSuperposition(val) == "typ" \in DOMAIN val

extractValues(val) ==
  IF IsSuperposition(val)
    THEN [values |-> val.values, typ |-> val.typ]
    ELSE [values |-> <<val>>, typ |-> Disjunctive]

\* combineInner leaving the loop after the first result
RECURSIVE combineInnerBreak(_, _, _, _)
combineInnerBreak(av, bValues, f, j) ==
  IF j > Len(bValues)
    THEN <<>>
    ELSE LET c == callOp(f, av, bValues[j])
         IN  IF c.err
               THEN combineInnerBreak(av, bValues, f, j + 1)
               ELSE <<c.res>>

\* combineInner appending the result of a failed pair as well
RECURSIVE combineInnerKeepErr(_, _, _, _)
combineInnerKeepErr(av, bValues, f, j) ==
  IF j > Len(bValues)
    THEN <<>>
    ELSE LET c == callOp(f, av, bValues[j])
         IN  <<c.res>> \o combineInnerKeepErr(av, bValues, f, j + 1)

\* the inner loop of combineValues for one av, from index j of bValues
RECURSIVE combineInner(_, _, _, _)
combineInner(av, bValues, f, j) ==
  IF j > Len(bValues)
    THEN <<>>
    ELSE LET c == callOp(f, av, bValues[j])
         IN  IF c.err
               THEN combineInner(av, bValues, f, j + 1)
               ELSE <<c.res>> \o combineInner(av, bValues, f, j + 1)

\* the outer loop of combineValues, from index j of aValues
RECURSIVE combineOuter(_, _, _, _)
combineOuter(aValues, bValues, f, j) ==
  IF j > Len(aValues)
    THEN <<>>
    ELSE combineInner(aValues[j], bValues, f, 1) \o combineOuter(aValues, bValues, f, j + 1)

\* combineTyp with && for ||
combineTypAnd(aTyp, bTyp) ==
  IF aTyp = Conjunctive /\ bTyp = Conjunctive THEN Conjunctive ELSE Disjunctive

combineTyp(aTyp, bTyp) ==
  IF aTyp = Conjunctive \/ bTyp = Conjunctive THEN Conjunctive ELSE Disjunctive

combineValues(x, y, f) ==
  LET ea == extractValues(x)
      eb == extractValues(y)
  IN  Superposition(combineOuter(ea.values, eb.values, f, 1), combineTyp(ea.typ, eb.typ))

\* compareInner leaving the loop at the first verdict in either mode
RECURSIVE compareInnerFirst(_, _, _, _, _)
compareInnerFirst(av, bValues, bTyp, f, j) ==
  IF j > Len(bValues)
    THEN FALSE
    ELSE LET c == callComp(f, av, bValues[j])
         IN  IF c.err
               THEN compareInnerFirst(av, bValues, bTyp, f, j + 1)
               ELSE c.res

\* compareInner taking a coercion failure for a failed comparison
RECURSIVE compareInnerErrRejects(_, _, _, _, _)
compareInnerErrRejects(av, bValues, bTyp, f, j) ==
  IF j > Len(bValues)
    THEN FALSE
    ELSE LET c == callComp(f, av, bValues[j])
         IN  IF ~c.err /\ c.res
               THEN TRUE
               ELSE IF bTyp = Conjunctive
                      THEN FALSE
                      ELSE compareInnerErrRejects(av, bValues, bTyp, f, j + 1)

\* compareInner with match starting true for a Conjunctive right operand
RECURSIVE compareInnerVacuous(_, _, _, _, _)
compareInnerVacuous(av, bValues, bTyp, f, j) ==
  IF j > Len(bValues)
    THEN bTyp = Conjunctive
    ELSE LET c == callComp(f, av, bValues[j])
         IN  IF c.err
               THEN compareInnerVacuous(av, bValues, bTyp, f, j + 1)
               ELSE IF c.res
                      THEN TRUE
                      ELSE IF bTyp = Conjunctive
                             THEN FALSE
                             ELSE compareInnerVacuous(av, bValues, bTyp, f, j + 1)

\* the inner loop of compareValues for one av, from index j of bValues:
\* the value of match when the loop is left
RECURSIVE compareInner(_, _, _, _, _)
compareInner(av, bValues, bTyp, f, j) ==
  IF j > Len(bValues)
    THEN FALSE
    ELSE LET c == callComp(f, av, bValues[j])
         IN  IF c.err
               THEN compareInner(av, bValues, bTyp, f, j + 1)
               ELSE IF c.res
                      THEN TRUE
                      ELSE IF bTyp = Conjunctive
                             THEN FALSE
                             ELSE compareInner(av, bValues, bTyp, f, j + 1)

\* the outer loop of compareValues, from index j of aValues
RECURSIVE compareOuter(_, _, _, _, _)
compareOuter(aValues, bValues, bTyp, f, j) ==
  IF j > Len(aValues)
    THEN <<>>
    ELSE (IF compareInner(aValues[j], bValues, bTyp, f, 1) THEN <<aValues[j]>> ELSE <<>>)
           \o compareOuter(aValues, bValues, bTyp, f, j + 1)

\* compareValues promoting the mode as combineValues does
compareValuesPromote(x, y, f) ==
  LET ea == extractValues(x)
      eb == extractValues(y)
  IN  Superposition(compareOuter(ea.values, eb.values, eb.typ, f, 1),
                    combineTyp(ea.typ, eb.typ))

compareValues(x, y, f) ==
  LET ea == extractValues(x)
      eb == extractValues(y)
  IN  Superposition(compareOuter(ea.values, eb.values, eb.typ, f, 1), ea.typ)

Add(x, y) == combineValues(x, y, "addValues")

Subtract(x, y) == combineValues(x, y, "subValues")

Multiply(x, y) == combineValues(x, y, "mulValues")

Divide(x, y) == combineValues(x, y, "divValues")

Modulo(x, y) == combineValues(x, y, "modValues")

LessThan(x, y) == compareValues(x, y, "lessThanValues")

GreaterThan(x, y) == compareValues(x, y, "greaterThanValues")

EqualTo(x, y) == compareValues(x, y, "equalToValues")

IsTrue(s) == IF Len(s.values) = 0 THEN FALSE ELSE TRUE

Eigenstates(s) == s.values

-----------------------------------------------------------------------------
(* The callers' inputs. *)

NumVals == {IntVal(x) : x \in 0..MaxVal}

\* a text literal such as "cat"
TextVals == {TextVal(1)}

Vals == NumVals \cup TextVals

SeqsUpTo(S, m) == UNION {[1..l -> S] : l \in 0..m}

\* an operand is a bare value, Any(...) or All(...)
Operands ==
  Vals \cup {Any(vs) : vs \in SeqsUpTo(Vals, MaxLen)}
       \cup {All(vs) : vs \in SeqsUpTo(Vals, MaxLen)}

\* the operands of a chain of calls: bare values, empty and non-empty
\* superpositions of both modes
ChainOperands ==
  {IntVal(0), IntVal(2), TextVal(1),
   Any(<<>>), Any(<<IntVal(1), IntVal(2)>>),
   All(<<>>), All(<<IntVal(2)>>), All(<<IntVal(0), TextVal(1)>>)}

IsConj(val) == IsSuperposition(val) /\ val.typ = Conjunctive

NoResult == Nil

CombineOps == {"Add", "Subtract", "Multiply", "Divide", "Modulo"}

FilterOps == {"LessThan", "GreaterThan", "EqualTo"}

-----------------------------------------------------------------------------
(* A caller of the package: it holds two operands a and b, calls one      *)
(* operation on them, and may pass the result on as an operand of the     *)
(* next call.  steps counts the results passed on; everConj and wasConj   *)
(* are history: a Conjunctive superposition was supplied by the caller,   *)
(* respectively an earlier result was Conjunctive.                        *)

PrimeIdle ==
  /\ n = 0
  /\ i = 0
  /\ divisors = All(<<>>)
  /\ pc = "idle"
  /\ result = FALSE

InitOn(S) ==
  /\ a \in S
  /\ b \in S
  /\ r = NoResult
  /\ op = "none"
  /\ steps = 0
  /\ everConj = (IsConj(a) \/ IsConj(b))
  /\ wasConj = FALSE
  /\ PrimeIdle

Init == InitOn(Operands)

Call(name, res) ==
  /\ op = "none"
  /\ r' = res
  /\ op' = name
  /\ UNCHANGED <<a, b, steps, everConj, wasConj>>
  /\ UNCHANGED primeVars

DoAdd == Call("Add", Add(a, b))

DoSubtract == Call("Subtract", Subtract(a, b))

DoMultiply == Call("Multiply", Multiply(a, b))

DoDivide == Call("Divide", Divide(a, b))

DoModulo == Call("Modulo", Modulo(a, b))

DoLessThan == Call("LessThan", LessThan(a, b))

DoGreaterThan == Call("GreaterThan", GreaterThan(a, b))

DoEqualTo == Call("EqualTo", EqualTo(a, b))

Next ==
  \/ DoAdd
  \/ DoSubtract
  \/ DoMultiply
  \/ DoDivide
  \/ DoModulo
  \/ DoLessThan
  \/ DoGreaterThan
  \/ DoEqualTo

Spec == Init /\ [][Next]_vars

\* the result of a combination becomes the left operand of the next call
FeedLeft ==
  /\ op \in CombineOps
  /\ steps < MaxChain
  /\ \E y \in ChainOperands :
       /\ a' = r
       /\ b' = y
       /\ everConj' = (everConj \/ IsConj(y))
  /\ wasConj' = (wasConj \/ r.typ = Conjunctive)
  /\ steps' = steps + 1
  /\ r' = NoResult
  /\ op' = "none"
  /\ UNCHANGED primeVars

\* the result of a combination becomes the right operand of the next call
FeedRight ==
  /\ op \in CombineOps
  /\ steps < MaxChain
  /\ \E y \in ChainOperands :
       /\ a' = y
       /\ b' = r
       /\ everConj' = (everConj \/ IsConj(y))
  /\ wasConj' = (wasConj \/ r.typ = Conjunctive)
  /\ steps' = steps + 1
  /\ r' = NoResult
  /\ op' = "none"
  /\ UNCHANGED primeVars

InitChain == InitOn(ChainOperands)

NextChain ==
  \/ DoAdd
  \/ DoSubtract
  \/ DoMultiply
  \/ DoDivide
  \/ DoModulo
  \/ DoLessThan
  \/ DoGreaterThan
  \/ DoEqualTo
  \/ FeedLeft
  \/ FeedRight

SpecChain == InitChain /\ [][NextChain]_vars

-----------------------------------------------------------------------------
(* isPrime of the example program, one action per step of its body. *)

\* int(math.Sqrt(float64(x)))
Isqrt(x) == CHOOSE s \in 0..x : s * s <= x /\ x < (s + 1) * (s + 1)

InitPrime ==
  /\ n \in 0..MaxN
  /\ i = 0
  /\ divisors = All(<<>>)
  /\ pc = "start"
  /\ result = FALSE
  /\ a = IntVal(0)
  /\ b = IntVal(0)
  /\ r = NoResult
  /\ op = "none"
  /\ steps = 0
  /\ everConj = FALSE
  /\ wasConj = FALSE

\* if n <= 1 { return false }; divisors := quantum.All(); i := 2
PrimeEntry ==
  /\ pc = "start"
  /\ IF n <= 1
       THEN /\ result' = FALSE
            /\ pc' = "done"
            /\ UNCHANGED <<i, divisors>>
       ELSE /\ divisors' = All(<<>>)
            /\ i' = 2
            /\ pc' = "loop"
            /\ UNCHANGED result
  /\ UNCHANGED <<n, algVars>>

\* one iteration of the for loop
PrimeLoop ==
  /\ pc = "loop"
  /\ i <= Isqrt(n)
  /\ divisors' = Add(divisors, IntVal(i))
  /\ i' = i + 1
  /\ UNCHANGED <<n, pc, result, algVars>>

\* the loop is left: return !Modulo(n, divisors).IsTrue()
PrimeReturn ==
  /\ pc = "loop"
  /\ i > Isqrt(n)
  /\ result' = ~IsTrue(Modulo(IntVal(n), divisors))
  /\ pc' = "done"
  /\ UNCHANGED <<n, i, divisors, algVars>>

NextPrime ==
  \/ PrimeEntry
  \/ PrimeLoop
  \/ PrimeReturn

SpecPrime == InitPrime /\ [][NextPrime]_vars

-----------------------------------------------------------------------------
(* The vocabulary of the properties: what the operations are meant to     *)
(* compute, stated on numeric values without reference to the loops.      *)

IsNumeric(v) == v.k \in {"int", "float64"}

\* the value sequence an operand stands for
ValuesOf(o) == IF IsSuperposition(o) THEN o.values ELSE <<o>>

ModeOf(o) == IF IsSuperposition(o) THEN o.typ ELSE Disjunctive

AllNumeric(vs) == \A j \in 1..Len(vs) : IsNumeric(vs[j])

NumLess(x, y) == x.n * y.d < y.n * x.d

NumEqual(x, y) == x.n * y.d = y.n * x.d

\* the comparison x op y of two numeric values
Holds(name, x, y) ==
  CASE name = "LessThan" -> NumLess(x, y)
    [] name = "GreaterThan" -> NumLess(y, x)
    [] name = "EqualTo" -> NumEqual(x, y)

\* z is the float64 x op y, for op one of Add, Subtract, Multiply, Divide
\* (y # 0) and Modulo (y # 0: z = x - q * y for an integer q, |z| < |y|, and
\* z is zero or has the sign of x)
IsResultOf(name, z, x, y) ==
  /\ z.k = "float64"
  /\ CASE name = "Add" -> z.n * x.d * y.d = (x.n * y.d + y.n * x.d) * z.d
       [] name = "Subtract" -> z.n * x.d * y.d = (x.n * y.d - y.n * x.d) * z.d
       [] name = "Multiply" -> z.n * x.d * y.d = x.n * y.n * z.d
       [] name = "Divide" -> z.n * x.d * y.n = x.n * y.d * z.d
       [] name = "Modulo" ->
            /\ Abs(z.n) * y.d < Abs(y.n) * z.d
            /\ z.n * x.n >= 0
            /\ (x.n * y.d * z.d - z.n * x.d * y.d) % (y.n * x.d * z.d) = 0

\* zs lists, for every pair (xs[p], ys[q]) in xs-major, ys-minor order, the
\* result of name on the pair
IsCrossProduct(name, zs, xs, ys) ==
  /\ Len(zs) = Len(xs) * Len(ys)
  /\ \A p \in 1..Len(xs) : \A q \in 1..Len(ys) :
       IsResultOf(name, zs[(p - 1) * Len(ys) + q], xs[p], ys[q])

\* the calls for which the caller's a, b, r hold operands and result
Called(names) == op \in names

-----------------------------------------------------------------------------
(* Properties. *)

\* C1: for every filter operation, every left operand with numeric values A
\* and every non-empty Conjunctive right operand with numeric values B, the
\* eigenstates of op(A, all(B)) are exactly the values of A, in A's order,
\* for which the comparison holds against every value of B.
C1_UniversalFilter ==
  (/\ Called(FilterOps)
   /\ IsConj(b)
   /\ Len(b.values) > 0
   /\ AllNumeric(ValuesOf(a))
   /\ AllNumeric(b.values))
  => LET ForAllB(x) == \A j \in 1..Len(b.values) : Holds(op, x, b.values[j])
     IN  Eigenstates(r) = SelectSeq(ValuesOf(a), ForAllB)

\* C2: for numeric A and B, the eigenstates of EqualTo(any(A), any(B)) (a bare
\* right operand counting as a one-element any) are exactly the elements of A
\* equal to at least one element of B, in A's order, duplicates of A retained.
C2_ExistentialFilter ==
  (/\ Called({"EqualTo"})
   /\ ~IsConj(a)
   /\ ~IsConj(b)
   /\ AllNumeric(ValuesOf(a))
   /\ AllNumeric(ValuesOf(b)))
  => LET InB(x) == \E j \in 1..Len(ValuesOf(b)) : NumEqual(x, ValuesOf(b)[j])
     IN  Eigenstates(r) = SelectSeq(ValuesOf(a), InB)

\* a duplicate of A is retained twice, matched by the second value of B only
C2_Witness ==
  /\ op = "EqualTo"
  /\ IsSuperposition(a) /\ ~IsConj(a)
  /\ IsSuperposition(b) /\ ~IsConj(b)
  /\ AllNumeric(a.values) /\ AllNumeric(b.values)
  /\ Len(a.values) = 2 /\ a.values[1] = a.values[2]
  /\ Len(b.values) = 2 /\ b.values[1] # a.values[1] /\ b.values[2] = a.values[1]
  /\ Eigenstates(r) = a.values

C4_ModePromotion ==
  Called(CombineOps)
  => /\ (r.typ = Conjunctive) <=> (IsConj(a) \/ IsConj(b))
     /\ (r.typ = Conjunctive) <=> everConj
     /\ wasConj => r.typ = Conjunctive

\* a chain of two feeds: an earlier result was Conjunctive, the operand
\* supplied last is not, and the last result is empty and Conjunctive
C4_Witness ==
  /\ op \in CombineOps
  /\ steps = 2
  /\ wasConj
  /\ IsSuperposition(a) /\ ~IsConj(b)
  /\ Eigenstates(r) = <<>>
  /\ r.typ = Conjunctive

NonZero(v) == v.n # 0

Usable(v) == IsNumeric(v)

Divisor(v) == IsNumeric(v) /\ NonZero(v)

Dividend(v) == IsNumeric(v) /\ NonZero(v)

\* C5 as stated: Divide and Modulo yield the results of exactly the pairs
\* with both values numeric and b not zero, which is the result of the
\* operation on the operands with every zero and every non-numeric value
\* removed from both of them.
C5_ZerosRemovedFromBoth ==
  Called({"Divide", "Modulo"})
  => /\ IsCrossProduct(op, Eigenstates(r), SelectSeq(ValuesOf(a), Usable),
                       SelectSeq(ValuesOf(b), Divisor))
     /\ IsCrossProduct(op, Eigenstates(r), SelectSeq(ValuesOf(a), Dividend),
                       SelectSeq(ValuesOf(b), Divisor))

\* C5, amended: Divide and Modulo always return a superposition whose
\* eigenstates are the results, in a-major, b-minor order, of exactly the
\* pairs with both values numeric and b not zero: the result of the operation
\* with every non-numeric value removed from both operands and every zero
\* removed from the right operand (a zero dividend is kept).
C5_PairExclusion ==
  Called({"Divide", "Modulo"})
  => /\ IsSuperposition(r)
     /\ IsCrossProduct(op, Eigenstates(r), SelectSeq(ValuesOf(a), Usable),
                       SelectSeq(ValuesOf(b), Divisor))

\* Divide(any(x, 1), any(0, 1)) with x a text: of four pairs only (1, 1) is kept
C5_Witness ==
  /\ op = "Divide"
  /\ Len(ValuesOf(a)) = 2 /\ Len(ValuesOf(b)) = 2
  /\ ~IsNumeric(ValuesOf(a)[1]) /\ Divisor(ValuesOf(a)[2])
  /\ IsNumeric(ValuesOf(b)[1]) /\ ~NonZero(ValuesOf(b)[1]) /\ Divisor(ValuesOf(b)[2])
  /\ Len(Eigenstates(r)) = 1

IsPrimeNumber(x) == x > 1 /\ \A m \in 2..(x - 1) : x % m # 0

\* C6: isPrime(n) returns true iff n is a prime number.
C6_IsPrimeCorrect == pc = "done" => (result <=> IsPrimeNumber(n))

RECURSIVE IsSubsequence(_, _)
\* s is obtained from t by dropping elements
IsSubsequence(s, t) ==
  IF s = <<>> THEN TRUE
  ELSE IF t = <<>> THEN FALSE
  ELSE IF Head(s) = Head(t) THEN IsSubsequence(Tail(s), Tail(t))
  ELSE IsSubsequence(s, Tail(t))

\* C7: a filter's result has the left operand's mode (Disjunctive for a bare
\* scalar), whatever the right operand's mode, and its eigenstates are a
\* subsequence of the left operand's values, unmodified.
C7_FilterSelects ==
  Called(FilterOps)
  => /\ r.typ = ModeOf(a)
     /\ IsSubsequence(Eigenstates(r), ValuesOf(a))

\* a Disjunctive left operand filtered by a Conjunctive right operand keeps
\* its second value only
C7_Witness ==
  /\ op \in FilterOps
  /\ IsSuperposition(a) /\ ~IsConj(a) /\ IsConj(b)
  /\ Len(a.values) = 2 /\ a.values[1] # a.values[2]
  /\ Eigenstates(r) = <<a.values[2]>>
  /\ r.typ = Disjunctive

Permutations(vs) ==
  {[j \in 1..Len(vs) |-> vs[f[j]]] :
     f \in {g \in [1..Len(vs) -> 1..Len(vs)] : \A p, q \in 1..Len(vs) : g[p] = g[q] => p = q}}

\* the filter of the last call, on a and a right operand of the given values
\* and mode
FilterAgainst(vs, t) ==
  CASE op = "LessThan" -> LessThan(a, Superposition(vs, t))
    [] op = "GreaterThan" -> GreaterThan(a, Superposition(vs, t))
    [] op = "EqualTo" -> EqualTo(a, Superposition(vs, t))

\* C8: a filter against any(B) or all(B), B numeric, has the same eigenstates
\* against every permutation of B.
C8_RightOrderIrrelevant ==
  (/\ Called(FilterOps)
   /\ IsSuperposition(b)
   /\ AllNumeric(b.values))
  => \A vs \in Permutations(b.values) :
       Eigenstates(FilterAgainst(vs, b.typ)) = Eigenstates(r)

\* C9: a filter of A against B, in either mode of B, has the eigenstates of
\* the filter of A against B without its non-numeric values, and retains no
\* non-numeric value of A.
C9_CoercionFailureNoVerdict ==
  Called(FilterOps)
  => /\ Eigenstates(r) =
          Eigenstates(FilterAgainst(SelectSeq(ValuesOf(b), IsNumeric), ModeOf(b)))
     /\ AllNumeric(Eigenstates(r))

\* LessThan(0, all(x, 1)) with x a text: the text gives no verdict, 0 < 1
\* accepts
C9_Witness ==
  /\ op = "LessThan"
  /\ IsConj(b)
  /\ Len(b.values) = 2 /\ ~IsNumeric(b.values[1]) /\ IsNumeric(b.values[2])
  /\ ~IsSuperposition(a)
  /\ Eigenstates(r) = <<a>>

IsEmpty(o) == IsSuperposition(o) /\ Len(o.values) = 0

\* C10: when either operand of a combination or of a filter is a
\* superposition without values, in either mode, the result has no
\* eigenstates and IsTrue is false; this holds again for every later call the
\* empty result is fed to.
C10_EmptyAbsorbs ==
  (/\ Called(CombineOps \cup FilterOps)
   /\ IsEmpty(a) \/ IsEmpty(b))
  => /\ Eigenstates(r) = <<>>
     /\ ~IsTrue(r)

\* an empty result was fed back in twice and the next result is empty again
C10_Witness ==
  /\ steps = 2
  /\ op = "Add"
  /\ IsEmpty(a)
  /\ ~IsSuperposition(b) /\ IsNumeric(b)
  /\ Eigenstates(r) = <<>>
  /\ ~IsTrue(r)

====
